---- MODULE Spec2Model ----
(***************************************************************************)
(* A model of the journal application's session state machine: the pure   *)
(* reducer update (update.rs), its error-recovery policy, the effect       *)
(* runner (effects.rs) and the driver loop (main.rs).                      *)
(*                                                                         *)
(* Text is modelled as a sequence of string pieces: typed text is a        *)
(* sequence of one-character strings, a format!() result is the            *)
(* concatenation of its literal pieces and its arguments.  Option<T> is    *)
(* modelled as a set with at most one element: {} is None, {x} is Some(x). *)
(***************************************************************************)
EXTENDS Naturals, Sequences, FiniteSets, TLC

VARIABLES
    state,      \* reducer: the current State; driver: JournalApp.state
    prev,       \* the State passed to the last reducer call
    act,        \* the Action passed to the last reducer call
    effs,       \* the effect list returned by the last reducer call
    op,         \* which function made the last step
    pc,         \* driver: position in JournalApp::run / process_action
    outer,      \* driver: the effects update returned to process_action
    oi,         \* driver: how many of outer have been run
    inner,      \* driver: the effects update returned for a follow-up action
    ii,         \* driver: how many of inner have been run
    ran,        \* driver: the effects run so far by the current process_action
    failed,     \* driver: whether an effect has failed in this run
    lastErr,    \* the error kind of the last effect run or recovery, an Option
    script,     \* scenario: the actions still to be applied
    docs,       \* storage: the documents created, in creation order
    index,      \* storage: the active-session pointer, an Option<Uuid>
    inputs,     \* driver: the number of lines read from the user
    unreported, \* driver: the errors met that printed no message
    arg,        \* a function on its own: the argument it is applied to
    ret         \* a function on its own: the value it returned

vars ==
    <<state, prev, act, effs, op, pc, outer, oi, inner, ii, ran, failed, lastErr,
      script, docs, index, inputs, unreported, arg, ret>>

driverVars ==
    <<pc, outer, oi, inner, ii, ran, failed, lastErr, docs, index, inputs, unreported>>

\* The variables of the specifications that apply one function on its own.
pureVars == <<arg, ret>>

(***************************************************************************)
(* Bounds and sample values                                                *)
(***************************************************************************)

\* The longest transcript the model lets a session grow to.
MaxTranscript == 2

\* The lines of user input one driver run may read.
MaxInputs == 3

Modes == {"Morning", "Evening"}

Speakers == {"User", "Coach", "System"}

\* Values Utc::now() may return.
Times == {1, 2}

\* Values Uuid::new_v4() (and the storage layer) may return.
Uuids == {"u1", "u2"}

\* Sample texts: user answers, model outputs.
Texts == {<<"h", "i">>, <<"o", "k">>}

None == {}

Some(x) == {x}

(***************************************************************************)
(* state.rs: the data model                                                *)
(***************************************************************************)

Initializing == [tag |-> "Initializing"]

PromptingForNew == [tag |-> "PromptingForNew"]

InSession(s) == [tag |-> "InSession", session |-> s]

Analyzing(s) == [tag |-> "Analyzing", session |-> s]

AnalysisReady(s, a) == [tag |-> "AnalysisReady", session |-> s, analysis |-> a]

Done(w) == [tag |-> "Done", result |-> w]

ErrorState(e) == [tag |-> "Error", error |-> e]

StateTags == {"Initializing", "PromptingForNew", "InSession", "Analyzing",
              "AnalysisReady", "Done", "Error"}

WriteResult(id, path, completed) ==
    [entry_id |-> id, entry_path |-> path, session_completed |-> completed]

is_terminal(s) == s.tag \in {"Done", "Error"}

is_interactive_unless_terminal(s) == s.tag \notin {"Done", "Error"}

is_interactive(s) == s.tag \in {"PromptingForNew", "InSession"}

new_with_document(mode) ==
    [mode |-> mode,
     transcript |-> <<>>,
     metadata |-> [session_doc_id |-> Some("u1"), final_entry_id |-> None,
                   completed_at |-> None]]

new(mode) ==
    [mode |-> mode,
     transcript |-> <<>>,
     metadata |-> [session_doc_id |-> None, final_entry_id |-> None,
                   completed_at |-> None]]

add_entry_in_front(s, speaker, content, now) ==
    [s EXCEPT !.transcript =
        <<[timestamp |-> now, speaker |-> speaker, content |-> content]>> \o @]

add_entry(s, speaker, content, now) ==
    [s EXCEPT !.transcript =
        Append(@, [timestamp |-> now, speaker |-> speaker, content |-> content])]

mark_completed_forgotten(s, now) == s

mark_completed(s, now) == [s EXCEPT !.metadata.completed_at = Some(now)]

(***************************************************************************)
(* action.rs / update.rs: the actions                                      *)
(***************************************************************************)

Start == [type |-> "Start"]

Resume(id) == [type |-> "Resume", id |-> id]

SelectMode(m) == [type |-> "SelectMode", mode |-> m]

UserResponse(t) == [type |-> "UserResponse", text |-> t]

CoachResponse(t) == [type |-> "CoachResponse", text |-> t]

NextQuestion == [type |-> "NextQuestion"]

Stop == [type |-> "Stop"]

AnalysisComplete(t) == [type |-> "AnalysisComplete", text |-> t]

FinalEntryCreated(p, a) == [type |-> "FinalEntryCreated", entry_path |-> p, text |-> a]

RequestSummary == [type |-> "RequestSummary"]

Save == [type |-> "Save"]

Complete == [type |-> "Complete"]

Quit == [type |-> "Quit"]

ErrorAction(t) == [type |-> "Error", text |-> t]

ActionTypes == {"Start", "Resume", "SelectMode", "UserResponse", "CoachResponse",
                "NextQuestion", "Stop", "AnalysisComplete", "FinalEntryCreated",
                "RequestSummary", "Save", "Complete", "Quit", "Error"}

(***************************************************************************)
(* error.rs: the error kinds and their Display                             *)
(***************************************************************************)

ErrorKinds == {"Aethel", "Io", "Json", "AiAnalysis", "SessionNotFound",
               "InvalidSessionState", "VaultOperation", "ClaudeExecution",
               "Config", "UserInput", "System"}

Err(kind, msg) == [kind |-> kind, msg |-> msg]

invalid_session_state(reason) == Err("InvalidSessionState", reason)

system(msg) == Err("System", msg)

\* The #[error("...")] prefix of each variant.
to_string(e) ==
    CASE e.kind = "Aethel" -> <<"Aethel operation failed: ">> \o e.msg
      [] e.kind = "Io" -> <<"IO operation failed: ">> \o e.msg
      [] e.kind = "Json" -> <<"JSON serialization failed: ">> \o e.msg
      [] e.kind = "AiAnalysis" -> <<"AI analysis failed: ">> \o e.msg
      [] e.kind = "SessionNotFound" -> <<"Session not found: ">> \o e.msg
      [] e.kind = "InvalidSessionState" -> <<"Invalid session state: ">> \o e.msg
      [] e.kind = "VaultOperation" -> <<"Vault operation failed: ">> \o e.msg
      [] e.kind = "ClaudeExecution" -> <<"Claude CLI execution failed: ">> \o e.msg
      [] e.kind = "Config" -> <<"Configuration error: ">> \o e.msg
      [] e.kind = "UserInput" -> <<"User input error: ">> \o e.msg
      [] OTHER -> <<"System error: ">> \o e.msg

(***************************************************************************)
(* effects.rs / update.rs: the effects                                     *)
(***************************************************************************)

SaveSession(s) == [kind |-> "SaveSession", session |-> s]

LoadSession(id) == [kind |-> "LoadSession", id |-> id]

ClearIndex == [kind |-> "ClearIndex"]

RequestCoachResponse(s, t) ==
    [kind |-> "RequestCoachResponse", session |-> s, user_response |-> t]

GenerateAnalysis(s) == [kind |-> "GenerateAnalysis", session |-> s]

CreateFinalEntry(s, id, a) ==
    [kind |-> "CreateFinalEntry", session |-> s, entry_id |-> id, analysis |-> a]

ShowError(t) == [kind |-> "ShowError", text |-> t]

ShowMessage(t) == [kind |-> "ShowMessage", text |-> t]

ShowAnalysis(t) == [kind |-> "ShowAnalysis", text |-> t]

ShowModePrompt == [kind |-> "ShowModePrompt"]

EffectKinds == {"SaveSession", "LoadSession", "ClearIndex", "RequestCoachResponse",
                "GenerateAnalysis", "CreateFinalEntry", "InitializeVault",
                "ShowError", "ShowMessage", "ShowAnalysis", "ShowModePrompt"}

(***************************************************************************)
(* {:?} formatting (derive(Debug)): the variant name followed by every     *)
(* field, flattened into text pieces.                                      *)
(***************************************************************************)

DebugOption(o) == IF o = None THEN <<"None">> ELSE <<"Some(", ToString(CHOOSE x \in o : TRUE), ")">>

RECURSIVE DebugTranscript(_)
DebugTranscript(t) ==
    IF t = <<>> THEN <<>>
    ELSE <<"TranscriptEntry", ToString(Head(t).timestamp), Head(t).speaker>>
            \o Head(t).content \o DebugTranscript(Tail(t))

DebugSession(s) ==
    <<"JournalSession", s.mode>> \o DebugTranscript(s.transcript)
        \o <<"SessionMetadata">> \o DebugOption(s.metadata.session_doc_id)
        \o DebugOption(s.metadata.final_entry_id)
        \o DebugOption(s.metadata.completed_at)

DebugState(s) ==
    CASE s.tag \in {"InSession", "Analyzing"} -> <<s.tag>> \o DebugSession(s.session)
      [] s.tag = "AnalysisReady" -> <<s.tag>> \o DebugSession(s.session) \o s.analysis
      [] s.tag = "Done" ->
            <<s.tag, "WriteResult", s.result.entry_id>> \o s.result.entry_path
                \o <<ToString(s.result.session_completed)>>
      [] s.tag = "Error" -> <<s.tag, s.error.kind>> \o s.error.msg
      [] OTHER -> <<s.tag>>

DebugAction(a) ==
    CASE a.type = "Resume" -> <<a.type, a.id>>
      [] a.type = "SelectMode" -> <<a.type, a.mode>>
      [] a.type \in {"UserResponse", "CoachResponse", "AnalysisComplete", "Error"} ->
            <<a.type>> \o a.text
      [] a.type = "FinalEntryCreated" -> <<a.type>> \o a.entry_path \o a.text
      [] OTHER -> <<a.type>>

(***************************************************************************)
(* update.rs: error_recovery                                               *)
(***************************************************************************)

Result(s, e) == [state |-> s, effects |-> e]

fallback_analysis(error) ==
    <<"**AI Analysis Unavailable**\n\n",
      "The AI analysis feature encountered an error and is currently unavailable. ",
      "Your journal session has been saved successfully.\n\n",
      "Error details: ">> \o to_string(error)

recover_invalid_session_state_as_fatal(error) ==
    Result(ErrorState(error), <<>>)

recover_invalid_session_state(error) ==
    Result(PromptingForNew,
           <<ShowError(<<"Session state error: ">> \o error.msg),
             ShowMessage(<<"Attempting to recover by starting fresh...">>),
             ShowModePrompt>>)

recover_system_by_restart(error) ==
    Result(PromptingForNew, <<ShowError(<<"System error: ">> \o error.msg)>>)

\* Error::System(msg): the last arm.
recover_system(error) ==
    Result(ErrorState(error), <<ShowError(<<"System error: ">> \o error.msg)>>)

error_recovery(error, context) ==
    CASE error.kind \in {"AiAnalysis", "ClaudeExecution"} ->
            IF context.tag = "Analyzing"
            THEN Result(Analyzing(context.session),
                        <<ShowError(to_string(error)),
                          ShowAnalysis(fallback_analysis(error))>>)
            ELSE Result(ErrorState(error), <<ShowError(to_string(error))>>)
      [] error.kind = "SessionNotFound" ->
            Result(PromptingForNew,
                   <<ShowError(<<"Session ">> \o error.msg \o <<" not found">>),
                     ShowMessage(<<"Starting a new session...">>),
                     ShowModePrompt>>)
      [] error.kind = "VaultOperation" ->
            Result(ErrorState(error),
                   <<ShowError(<<"Vault operation failed: ">> \o error.msg),
                     ShowMessage(<<"Please check file permissions and disk space.">>)>>)
      [] error.kind = "InvalidSessionState" -> recover_invalid_session_state(error)
      [] error.kind \in {"Aethel", "Io", "Json"} ->
            Result(ErrorState(error),
                   <<ShowError(<<"System error: ">> \o error.msg),
                     ShowMessage(<<"This is a system-level error that may require attention.">>)>>)
      [] error.kind = "Config" ->
            Result(ErrorState(error),
                   <<ShowError(<<"Configuration error: ">> \o error.msg),
                     ShowMessage(<<"Please check your configuration settings.">>)>>)
      [] error.kind = "UserInput" ->
            Result(context,
                   <<ShowError(<<"Input error: ">> \o error.msg),
                     ShowMessage(<<"Please try entering your input again.">>)>>)
      [] OTHER -> recover_system(error)

(***************************************************************************)
(* update.rs: update, one operator per match arm                           *)
(***************************************************************************)

ModeName(mode) == IF mode = "Morning" THEN "morning" ELSE "evening"

update_Start_prompting == Result(PromptingForNew, <<ShowModePrompt>>)

update_Start == Result(PromptingForNew, <<>>)

update_Resume_first(session_id) ==
    Result(Initializing, <<LoadSession(CHOOSE u \in Uuids : TRUE)>>)

update_Resume(session_id) == Result(Initializing, <<LoadSession(session_id)>>)

update_SelectMode_no_entry(mode, now) ==
    LET session == new(mode)
    IN  Result(InSession(session), <<SaveSession(session)>>)

update_SelectMode(mode, now) ==
    LET session == add_entry(new(mode), "System",
                             <<"Starting ", ModeName(mode), " journal session">>, now)
    IN  Result(InSession(session), <<SaveSession(session)>>)

update_UserResponse_saving_old(s, response, now) ==
    LET session == add_entry(s, "User", response, now)
    IN  Result(InSession(session),
               <<SaveSession(s), RequestCoachResponse(session, response)>>)

update_UserResponse_swapped(s, response, now) ==
    LET session == add_entry(s, "User", response, now)
    IN  Result(InSession(session),
               <<RequestCoachResponse(session, response), SaveSession(session)>>)

update_UserResponse(s, response, now) ==
    LET session == add_entry(s, "User", response, now)
    IN  Result(InSession(session),
               <<SaveSession(session), RequestCoachResponse(session, response)>>)

update_CoachResponse_dropped(s, response, now) ==
    Result(InSession(s), <<SaveSession(s)>>)

update_CoachResponse_as_user(s, response, now) ==
    LET session == add_entry(s, "User", response, now)
    IN  Result(InSession(session), <<SaveSession(session)>>)

update_CoachResponse(s, response, now) ==
    LET session == add_entry(s, "Coach", response, now)
    IN  Result(InSession(session), <<SaveSession(session)>>)

update_NextQuestion_saving(session) ==
    Result(InSession(session), <<SaveSession(session)>>)

update_NextQuestion(session) == Result(InSession(session), <<>>)

update_Stop_unmarked(s, now) ==
    Result(Analyzing(s), <<SaveSession(s), GenerateAnalysis(s)>>)

update_Stop(s, now) ==
    LET session == mark_completed(s, now)
    IN  Result(Analyzing(session), <<SaveSession(session), GenerateAnalysis(session)>>)

update_AnalysisComplete_twice(session, analysis, entry_id) ==
    Result(AnalysisReady(session, analysis),
           <<CreateFinalEntry(session, entry_id, analysis),
             CreateFinalEntry(session, entry_id, analysis)>>)

update_AnalysisComplete(session, analysis, entry_id) ==
    Result(AnalysisReady(session, analysis),
           <<CreateFinalEntry(session, entry_id, analysis)>>)

\* (Analyzing, Stop): the legacy arm.
update_AnalyzingStop(entry_id) ==
    Result(Done(WriteResult(entry_id, <<"entry_", entry_id, ".md">>, TRUE)),
           <<ClearIndex>>)

update_FinalEntryCreated_own_path(entry_path, entry_id) ==
    Result(Done(WriteResult(entry_id, <<"entry_", entry_id, ".md">>, TRUE)),
           <<ClearIndex>>)

update_FinalEntryCreated(entry_path, entry_id) ==
    Result(Done(WriteResult(entry_id, entry_path, TRUE)), <<ClearIndex>>)

\* (Initializing, UserResponse(_)): the session-loaded placeholder.
update_SessionLoaded ==
    Result(ErrorState(system(<<"Session load not implemented yet">>)), <<>>)

update_invalid_panics(s, action) == Result([tag |-> "Panicked"], <<>>)

\* (state, action): the catch-all arm.
update_invalid(s, action) ==
    LET error_msg == <<"Invalid action ">> \o DebugAction(action)
                        \o <<" for state ">> \o DebugState(s)
    IN  error_recovery(invalid_session_state(error_msg), s)

\* Whether an arm before the catch-all matches (state, action).
Handled(s, action) ==
    \/ s.tag = "Initializing" /\ action.type \in {"Start", "Resume", "UserResponse"}
    \/ s.tag = "PromptingForNew" /\ action.type = "SelectMode"
    \/ s.tag = "InSession"
         /\ action.type \in {"UserResponse", "CoachResponse", "NextQuestion", "Stop"}
    \/ s.tag = "Analyzing" /\ action.type \in {"AnalysisComplete", "Stop"}
    \/ s.tag = "AnalysisReady" /\ action.type = "FinalEntryCreated"

update(s, action, now, uuid) ==
    CASE s.tag = "Initializing" /\ action.type = "Start" -> update_Start
      [] s.tag = "Initializing" /\ action.type = "Resume" -> update_Resume(action.id)
      [] s.tag = "PromptingForNew" /\ action.type = "SelectMode" ->
            update_SelectMode(action.mode, now)
      [] s.tag = "InSession" /\ action.type = "UserResponse" ->
            update_UserResponse(s.session, action.text, now)
      [] s.tag = "InSession" /\ action.type = "CoachResponse" ->
            update_CoachResponse(s.session, action.text, now)
      [] s.tag = "InSession" /\ action.type = "NextQuestion" ->
            update_NextQuestion(s.session)
      [] s.tag = "InSession" /\ action.type = "Stop" -> update_Stop(s.session, now)
      [] s.tag = "Analyzing" /\ action.type = "AnalysisComplete" ->
            update_AnalysisComplete(s.session, action.text, uuid)
      [] s.tag = "Analyzing" /\ action.type = "Stop" -> update_AnalyzingStop(uuid)
      [] s.tag = "AnalysisReady" /\ action.type = "FinalEntryCreated" ->
            update_FinalEntryCreated(action.entry_path, uuid)
      [] s.tag = "Initializing" /\ action.type = "UserResponse" -> update_SessionLoaded
      [] OTHER -> update_invalid(s, action)

(***************************************************************************)
(* The reducer on its own: any action may be applied to the current state. *)
(***************************************************************************)

\* entry_path as create_final_entry formats it.
Paths == {<<"docs/", u, ".md">> : u \in Uuids}

Actions ==
    {Start, NextQuestion, Stop, RequestSummary, Save, Complete, Quit}
        \cup {Resume(u) : u \in Uuids}
        \cup {SelectMode(m) : m \in Modes}
        \cup {UserResponse(t) : t \in Texts}
        \cup {CoachResponse(t) : t \in Texts}
        \cup {AnalysisComplete(t) : t \in Texts}
        \cup {FinalEntryCreated(p, t) : p \in Paths, t \in Texts}
        \cup {ErrorAction(t) : t \in Texts}

NoAction == [type |-> "None"]

\* Whether update(s, action) appends a transcript entry.
Appends(s, action) ==
    s.tag = "InSession" /\ action.type \in {"UserResponse", "CoachResponse"}

\* The model's bound on the transcript: an appending action needs room.
HasRoom(s, action) ==
    Appends(s, action) => Len(s.session.transcript) < MaxTranscript

DriverIdle ==
    /\ pc = "idle"
    /\ outer = <<>>
    /\ oi = 0
    /\ inner = <<>>
    /\ ii = 0
    /\ ran = <<>>
    /\ failed = FALSE
    /\ lastErr = None
    /\ docs = <<>>
    /\ index = None
    /\ inputs = 0
    /\ unreported = 0

\* No function is being applied on its own.
PureIdle == arg = <<>> /\ ret = None

Init ==
    /\ state = Initializing
    /\ prev = Initializing
    /\ act = NoAction
    /\ effs = <<>>
    /\ op = "init"
    /\ script = <<>>
    /\ DriverIdle
    /\ PureIdle

\* Whether update(s, action) reads Utc::now().
ReadsClock(s, action) ==
    \/ s.tag = "PromptingForNew" /\ action.type = "SelectMode"
    \/ s.tag = "InSession" /\ action.type \in {"UserResponse", "CoachResponse", "Stop"}

\* Whether update(s, action) calls Uuid::new_v4().
DrawsUuid(s, action) ==
    \/ s.tag = "Analyzing" /\ action.type \in {"AnalysisComplete", "Stop"}
    \/ s.tag = "AnalysisReady" /\ action.type = "FinalEntryCreated"

\* The values the environment may hand one call of update: a call that does not
\* read the clock (draw an identifier) gets one value, which it ignores.
NowFor(s, action) == IF ReadsClock(s, action) THEN Times ELSE {1}

UuidFor(s, action) == IF DrawsUuid(s, action) THEN Uuids ELSE {"u1"}

UpdateStep ==
    \E action \in Actions :
        /\ HasRoom(state, action)
        /\ \E now \in NowFor(state, action), uuid \in UuidFor(state, action) :
            \E r \in {update(state, action, now, uuid)} :
                /\ state' = r.state
                /\ effs' = r.effects
        /\ prev' = state
        /\ act' = action
        /\ op' = "update"
        /\ UNCHANGED <<script, driverVars, pureVars>>

Next == UpdateStep

Spec == Init /\ [][Next]_vars

(***************************************************************************)
(* The end-to-end scenario: a scripted action sequence fed to the reducer. *)
(***************************************************************************)

Scenario(t1, t2, a, path) ==
    <<Start, SelectMode("Morning"), UserResponse(t1), CoachResponse(t2), Stop,
      AnalysisComplete(a), FinalEntryCreated(path, a)>>

ScenarioLen == Len(Scenario(<<>>, <<>>, <<>>, <<>>))

ScenarioInit ==
    /\ state = Initializing
    /\ prev = Initializing
    /\ act = NoAction
    /\ effs = <<>>
    /\ op = "init"
    /\ \E t1 \in Texts, t2 \in Texts, a \in Texts, path \in Paths :
        script = Scenario(t1, t2, a, path)
    /\ DriverIdle
    /\ PureIdle

ScenarioStep ==
    /\ script # <<>>
    /\ \E now \in NowFor(state, Head(script)), uuid \in UuidFor(state, Head(script)) :
        \E r \in {update(state, Head(script), now, uuid)} :
            /\ state' = r.state
            /\ effs' = r.effects
    /\ prev' = state
    /\ act' = Head(script)
    /\ op' = "scenario"
    /\ script' = Tail(script)
    /\ UNCHANGED <<driverVars, pureVars>>

ScenarioNext == ScenarioStep

SpecScenario == ScenarioInit /\ [][ScenarioNext]_vars

(***************************************************************************)
(* Text helpers: str::trim and str::to_lowercase on typed text             *)
(***************************************************************************)

IsWhitespace(c) == c \in {" ", "\t", "\n", "\r"}

RECURSIVE TrimStart(_)
TrimStart(t) ==
    IF t # <<>> /\ IsWhitespace(Head(t)) THEN TrimStart(Tail(t)) ELSE t

RECURSIVE TrimEnd(_)
TrimEnd(t) ==
    IF t # <<>> /\ IsWhitespace(t[Len(t)]) THEN TrimEnd(SubSeq(t, 1, Len(t) - 1)) ELSE t

Trim_start_only(t) == TrimStart(t)

Trim(t) == TrimEnd(TrimStart(t))

UpperLetters ==
    <<"A", "B", "C", "D", "E", "F", "G", "H", "I", "J", "K", "L", "M",
      "N", "O", "P", "Q", "R", "S", "T", "U", "V", "W", "X", "Y", "Z">>

LowerLetters ==
    <<"a", "b", "c", "d", "e", "f", "g", "h", "i", "j", "k", "l", "m",
      "n", "o", "p", "q", "r", "s", "t", "u", "v", "w", "x", "y", "z">>

LowerChar(c) ==
    IF \E k \in 1..Len(UpperLetters) : UpperLetters[k] = c
    THEN LowerLetters[CHOOSE k \in 1..Len(UpperLetters) : UpperLetters[k] = c]
    ELSE c

ToLower_ascii_unchanged(t) == t

ToLower(t) == [k \in 1..Len(t) |-> LowerChar(t[k])]

(***************************************************************************)
(* UserInput::new_with_context, which main.rs calls: the context-sensitive *)
(* grammar of the specification (section 3).                               *)
(***************************************************************************)

new_with_context(input, context) ==
    LET trimmed == Trim(input)
        lower == ToLower(trimmed)
    IN  IF trimmed = <<>> THEN NextQuestion
        ELSE IF context = "ModeSelection"
        THEN CASE lower \in {<<"m">>, <<"m", "o", "r", "n", "i", "n", "g">>} ->
                    SelectMode("Morning")
               [] lower \in {<<"e">>, <<"e", "v", "e", "n", "i", "n", "g">>} ->
                    SelectMode("Evening")
               [] OTHER -> UserResponse(trimmed)
        ELSE CASE lower \in {<<"s">>, <<"s", "t", "o", "p">>} -> Stop
               [] OTHER -> UserResponse(trimmed)

(***************************************************************************)
(* effects.rs: the effect runner and the storage it writes                 *)
(***************************************************************************)

\* The raw standard output of one successful model invocation.
ModelOutputs == {<<" ", "o", "k", "\n">>, <<" ", "\n">>, <<"Execution error">>}

\* The word action.rs reads as the quit command; to the context-sensitive
\* grammar it is a line of free text like any other.
QuitLine == <<"q", "u", "i", "t">>

\* The lines read_line may hand get_user_input.
RawInputs ==
    {<<"\n">>, <<"m", "\n">>, <<"E", "\n">>, <<"s", "\n">>, QuitLine \o <<"\n">>}

\* Sample error kinds a failing effect may report, among those error.rs
\* builds: of each layer, one kind per way process_action handles it.
StorageFailures == {"VaultOperation", "Io"}

ModelFailures == {"AiAnalysis", "System"}

LoadFailures == StorageFailures \cup {"SessionNotFound"}

\* The identifier the storage layer gives the next document it creates.
FreshId(d) == "d" \o ToString(Len(d) + 1)

Outcome(res, action, err, d, ix) ==
    [res |-> res, action |-> action, err |-> err, docs |-> d, index |-> ix]

OkNone(d, ix) == Outcome("none", NoAction, None, d, ix)

OkSome(action, d, ix) == Outcome("action", action, None, d, ix)

Failure(kind, d, ix) == Outcome("err", NoAction, Some(kind), d, ix)

\* apply_patch as save_session calls it: Create makes a new document,
\* MergeFrontmatter rewrites the document the identifier names.
save_patch(session, d) ==
    IF session.metadata.session_doc_id # None
    THEN LET id == CHOOSE x \in session.metadata.session_doc_id : TRUE
         IN  [uuid |-> id,
              docs |-> [k \in 1..Len(d) |->
                          IF d[k].uuid = id
                          THEN [d[k] EXCEPT !.patch = "MergeFrontmatter"]
                          ELSE d[k]]]
    ELSE [uuid |-> FreshId(d),
          docs |-> Append(d, [uuid |-> FreshId(d), doc_type |-> "journal.session",
                              patch |-> "Create"])]

\* save_session: the write may fail; after it, update_index may fail.
save_session(session, d, ix) ==
    LET w == save_patch(session, d)
    IN  {OkNone(w.docs, Some(w.uuid))}
            \cup {Failure(k, d, ix) : k \in StorageFailures}
            \cup {Failure(k, w.docs, ix) : k \in StorageFailures}

load_session(session_id, d, ix) ==
    {OkSome(UserResponse(<<"session_loaded">>), d, ix)}
        \cup {Failure(k, d, ix) : k \in LoadFailures}

clear_index(d, ix) ==
    {OkNone(d, None)} \cup {Failure(k, d, ix) : k \in StorageFailures}

request_coach_response(session, user_response, d, ix) ==
    {OkSome(CoachResponse(Trim(raw)), d, ix) : raw \in ModelOutputs}
        \cup {Failure(k, d, ix) : k \in ModelFailures}

\* Whether text holds the piece word (str::contains on the pieces).
Contains(text, word) == \E k \in 1..Len(text) : text[k] = word

\* From<anyhow::Error> for Error: the kind is read off the words of the
\* error chain, case-sensitively, in this order.
from_anyhow(error_chain) ==
    IF Contains(error_chain, "aethel") \/ Contains(error_chain, "vault")
    THEN Err("VaultOperation", error_chain)
    ELSE IF Contains(error_chain, "claude") \/ Contains(error_chain, "AI")
    THEN Err("AiAnalysis", error_chain)
    ELSE IF Contains(error_chain, "JSON") \/ Contains(error_chain, "serde")
    THEN Err("System", <<"JSON error: ">> \o error_chain)
    ELSE Err("System", error_chain)

\* What the model subprocess may write to standard error when it exits
\* with a failure status.
Stderrs == {<<"rate limited">>, <<"claude", ": not logged in">>}

\* The error chains generate_analysis bails with, whatever the output:
\* the subprocess cannot be started, it exits with a failure status, its
\* output is not UTF-8.
analysis_invocation_failures ==
    {<<"Failed to execute ", "claude", " command for analysis - is '", "claude",
       "' CLI installed?">>,
     <<"Invalid UTF-8 in ", "claude", " analysis response">>}
        \cup {<<"Claude analysis command failed with exit code ">> \o <<"Some(1)">>
                \o <<":\nStderr: ">> \o e \o <<"\nStdout: ">> : e \in Stderrs}

\* The error chain generate_analysis bails with on the output raw of a
\* successful invocation, None when it accepts the output.
analysis_output_failure(raw) ==
    IF Trim(raw) = <<>>
    THEN Some(<<"Claude command succeeded but returned empty analysis">>)
    ELSE IF Contains(Trim(raw), "Execution error")
    THEN Some(<<"Claude CLI returned 'Execution error'. ",
                "Claude CLI authentication: run '", "claude", " auth status'",
                "Raw ", "claude", " output: ">> \o Trim(raw))
    ELSE None

\* generate_analysis rejects empty output and output holding "Execution error".
generate_analysis(session, d, ix) ==
    {OkSome(AnalysisComplete(Trim(raw)), d, ix) :
        raw \in {o \in ModelOutputs : analysis_output_failure(o) = None}}
        \cup {Failure(from_anyhow(c).kind, d, ix) :
                c \in analysis_invocation_failures
                        \cup UNION {analysis_output_failure(o) : o \in ModelOutputs}}

create_final_entry(session, analysis, d, ix) ==
    {OkSome(FinalEntryCreated(<<"docs/", FreshId(d), ".md">>, analysis),
            Append(d, [uuid |-> FreshId(d), doc_type |-> "journal.entry",
                       patch |-> "Create"]),
            ix)}
        \cup {Failure(k, d, ix) : k \in StorageFailures}

\* The Show effects of update.rs only print.
show(d, ix) == {OkNone(d, ix)}

\* run_effect: every outcome one run of the effect may have.
run_effect(e, d, ix) ==
    CASE e.kind = "SaveSession" -> save_session(e.session, d, ix)
      [] e.kind = "LoadSession" -> load_session(e.id, d, ix)
      [] e.kind = "ClearIndex" -> clear_index(d, ix)
      [] e.kind = "RequestCoachResponse" ->
            request_coach_response(e.session, e.user_response, d, ix)
      [] e.kind = "GenerateAnalysis" -> generate_analysis(e.session, d, ix)
      [] e.kind = "CreateFinalEntry" -> create_final_entry(e.session, e.analysis, d, ix)
      [] OTHER -> show(d, ix)

(***************************************************************************)
(* main.rs: main, JournalApp::run and JournalApp::process_action           *)
(***************************************************************************)

New == [cmd |-> "New", id |-> None]

ResumeCommand(id) == [cmd |-> "Resume", id |-> id]

Commands == {New, ResumeCommand(None)} \cup {ResumeCommand(Some(u)) : u \in Uuids}

\* find_active_session: Ok(None) when the index file is missing or names no
\* session, Ok(Some(id)) when it names one, Err when it cannot be read.
find_active_session(ix) ==
    {[ok |-> TRUE, id |-> None], [ok |-> TRUE, id |-> ix], [ok |-> FALSE, id |-> None]}

\* Whether main calls find_active_session for this command.
FindsSession(command) == command.cmd = "Resume" /\ command.id = None

\* main: the initial action; found is what find_active_session returned.
initial_action(command, found) ==
    IF command.cmd = "New" THEN Start
    ELSE IF command.id # None THEN Resume(CHOOSE u \in command.id : TRUE)
    ELSE IF found.ok /\ found.id # None THEN Resume(CHOOSE u \in found.id : TRUE)
    ELSE Start

\* main, Err(_) => Action::Start: the error is dropped, nothing is printed.
silent_errors(command, found) ==
    IF FindsSession(command) /\ ~found.ok THEN 1 ELSE 0

DriverInit ==
    /\ state = Initializing
    /\ prev = Initializing
    /\ act = NoAction
    /\ effs = <<>>
    /\ op = "init"
    /\ script = <<>>
    /\ pc = "start"
    /\ outer = <<>>
    /\ oi = 0
    /\ inner = <<>>
    /\ ii = 0
    /\ ran = <<>>
    /\ failed = FALSE
    /\ lastErr = None
    /\ docs = <<>>
    /\ index \in {None, Some("u1")}
    /\ inputs = 0
    /\ unreported = 0
    /\ arg = <<>>
    /\ ret = None

\* The sample message of an error an effect reports.
FailureMessage == <<"failure">>

\* Utc::now() during a driver run: the clock ticks once per line read.
DriverNow == {inputs + 1}

\* process_action up to its loop over the effects: update is applied, the new
\* state stored, and the returned effects are the ones to run.
BeginProcess(action) ==
    /\ \E now \in DriverNow, uuid \in UuidFor(state, action) :
        \E r \in {update(state, action, now, uuid)} :
            /\ state' = r.state
            /\ effs' = r.effects
            /\ outer' = r.effects
    /\ prev' = state
    /\ act' = action
    /\ op' = "process_action"
    /\ oi' = 0
    /\ inner' = <<>>
    /\ ii' = 0
    /\ ran' = <<>>
    /\ lastErr' = None
    /\ pc' = "effects"

\* An entry of ran: the effect run, at which level, what it yielded and
\* whether the yielded action was fed to update.
Ran(e, level, o, fed) ==
    [effect |-> e, level |-> level, ok |-> o.res # "err",
     yielded |-> IF o.res = "action" THEN Some(o.action.type) ELSE None,
     fed |-> fed]

\* process_action: update applied to a follow-up (or fallback) action.
FollowUp(action, how) ==
    /\ \E now \in DriverNow, uuid \in UuidFor(state, action) :
        \E r \in {update(state, action, now, uuid)} :
            /\ state' = r.state
            /\ effs' = r.effects
            /\ inner' = r.effects
    /\ prev' = state
    /\ act' = action
    /\ op' = how
    /\ ii' = 0

EffectsDone == oi = Len(outer) /\ ii = Len(inner)

Seed ==
    /\ pc = "start"
    /\ \E command \in Commands, found \in find_active_session(index) :
        /\ ~FindsSession(command) => found = [ok |-> TRUE, id |-> None]
        /\ BeginProcess(initial_action(command, found))
        /\ unreported' = unreported + silent_errors(command, found)
    /\ UNCHANGED <<failed, script, pureVars, docs, index, inputs>>

falls_back_for_any_effect(e, err) ==
    err # {} /\ err \subseteq {"AiAnalysis", "ClaudeExecution"}

\* The failures process_action answers with a fallback analysis: an AI error
\* of the GenerateAnalysis effect.
falls_back(e, err) ==
    /\ err # {}
    /\ err \subseteq {"AiAnalysis", "ClaudeExecution"}
    /\ e.kind = "GenerateAnalysis"

\* One iteration of `for effect in effects`.
RunOuterEffect ==
    /\ pc = "effects"
    /\ ii = Len(inner)
    /\ oi < Len(outer)
    /\ LET e == outer[oi + 1]
       IN  \E o \in run_effect(e, docs, index) :
            /\ docs' = o.docs
            /\ index' = o.index
            /\ oi' = oi + 1
            /\ lastErr' = o.err
            /\ failed' = (failed \/ o.res = "err")
            /\ ran' = Append(ran, Ran(e, "outer", o, o.res = "action"))
            /\ CASE o.res = "action" -> FollowUp(o.action, "follow_up")
                 [] o.res = "err" /\ falls_back(e, o.err) ->
                        \E k \in o.err :
                            FollowUp(AnalysisComplete(
                                        fallback_analysis(Err(k, FailureMessage))),
                                     "fallback")
                 [] OTHER -> UNCHANGED <<state, prev, act, effs, op, inner, ii>>
    /\ UNCHANGED <<pc, outer, script, unreported, pureVars, inputs>>

RunNestedEffect_retrying ==
    /\ pc = "effects"
    /\ ii < Len(inner)
    /\ LET e == inner[ii + 1]
       IN  \E o \in run_effect(e, docs, index) :
            /\ docs' = o.docs
            /\ index' = o.index
            /\ ii' = IF o.res = "err" THEN ii ELSE ii + 1
            /\ lastErr' = o.err
            /\ failed' = (failed \/ o.res = "err")
            /\ ran' = Append(ran, Ran(e, "nested", o, FALSE))
    /\ UNCHANGED <<state, prev, act, effs, op, pc, outer, oi, inner, script, unreported, pureVars, inputs>>

RunNestedEffect_writing_state ==
    /\ pc = "effects"
    /\ ii < Len(inner)
    /\ LET e == inner[ii + 1]
       IN  \E o \in run_effect(e, docs, index) :
            /\ docs' = o.docs
            /\ index' = o.index
            /\ ii' = ii + 1
            /\ lastErr' = o.err
            /\ failed' = (failed \/ o.res = "err")
            /\ ran' = Append(ran, Ran(e, "nested", o, FALSE))
            /\ state' = IF e.kind = "SaveSession" /\ o.res # "err"
                              /\ state.tag = "InSession"
                        THEN [state EXCEPT !.session.metadata.session_doc_id =
                                                Some("u1")]
                        ELSE state
    /\ UNCHANGED <<prev, act, effs, op, pc, outer, oi, inner, script, unreported, pureVars, inputs>>

\* One iteration of `for next_effect in next_effects`: the result of
\* run_effect is matched as Ok(_) or Err(e), and Err(e) is printed.
RunNestedEffect ==
    /\ pc = "effects"
    /\ ii < Len(inner)
    /\ LET e == inner[ii + 1]
       IN  \E o \in run_effect(e, docs, index) :
            /\ docs' = o.docs
            /\ index' = o.index
            /\ ii' = ii + 1
            /\ lastErr' = o.err
            /\ failed' = (failed \/ o.res = "err")
            /\ ran' = Append(ran, Ran(e, "nested", o, FALSE))
    /\ UNCHANGED <<state, prev, act, effs, op, pc, outer, oi, inner, script, unreported, pureVars, inputs>>

\* run: the loop ends in a terminal state.
Exit ==
    /\ pc = "effects"
    /\ EffectsDone
    /\ is_terminal(state)
    /\ pc' = IF state.tag = "Error" THEN "exit_error" ELSE "exit_ok"
    /\ UNCHANGED <<state, prev, act, effs, op, outer, oi, inner, ii, ran, failed,
                   lastErr, script, unreported, pureVars, docs, index, inputs>>

InputContext_always_mode_selection(s) == "ModeSelection"

InputContext(s) ==
    CASE s.tag = "PromptingForNew" -> "ModeSelection"
      [] s.tag = "InSession" -> "InSession"
      [] OTHER -> "ModeSelection"

ReadInput_in_any_state ==
    /\ pc = "effects"
    /\ EffectsDone
    /\ inputs < MaxInputs
    /\ \E raw \in RawInputs :
        BeginProcess(new_with_context(Trim(raw), InputContext(state)))
    /\ inputs' = inputs + 1
    /\ UNCHANGED <<failed, script, unreported, pureVars, docs, index>>

\* run: an interactive state reads one line and processes the parsed action.
ReadInput ==
    /\ pc = "effects"
    /\ EffectsDone
    /\ ~is_terminal(state)
    /\ is_interactive(state)
    /\ inputs < MaxInputs
    /\ \E raw \in RawInputs :
        BeginProcess(new_with_context(Trim(raw), InputContext(state)))
    /\ inputs' = inputs + 1
    /\ UNCHANGED <<failed, script, unreported, pureVars, docs, index>>

\* run: get_user_input fails and run returns the error.
InputFails ==
    /\ pc = "effects"
    /\ EffectsDone
    /\ ~is_terminal(state)
    /\ is_interactive(state)
    /\ pc' = "input_failed"
    /\ UNCHANGED <<state, prev, act, effs, op, outer, oi, inner, ii, ran, failed,
                   lastErr, script, unreported, pureVars, docs, index, inputs>>

\* run: a state neither terminal nor interactive ends the run with
\* "Stuck in non-interactive state".
Stuck ==
    /\ pc = "effects"
    /\ EffectsDone
    /\ ~is_terminal(state)
    /\ ~is_interactive(state)
    /\ pc' = "stuck"
    /\ UNCHANGED <<state, prev, act, effs, op, outer, oi, inner, ii, ran, failed,
                   lastErr, script, unreported, pureVars, docs, index, inputs>>

DriverNext ==
    \/ Seed
    \/ RunOuterEffect
    \/ RunNestedEffect
    \/ Exit
    \/ ReadInput
    \/ InputFails
    \/ Stuck

SpecDriver == DriverInit /\ [][DriverNext]_vars

(***************************************************************************)
(* error_recovery on its own: any error may be raised in any context.      *)
(***************************************************************************)

\* Sample sessions, built the way update builds them.
RecoverySessions ==
    LET started == {update_SelectMode(m, 1).state.session : m \in Modes}
        answered == {add_entry(x, "User", t, 1) : x \in started, t \in Texts}
    IN  started \cup answered

\* The context states error_recovery is given.
RecoveryContexts ==
    {Initializing, PromptingForNew}
        \cup {InSession(x) : x \in RecoverySessions}
        \cup {Analyzing(mark_completed(x, 2)) : x \in RecoverySessions}
        \cup {AnalysisReady(mark_completed(x, 2), t) : x \in RecoverySessions, t \in Texts}
        \cup {update_FinalEntryCreated(path, u).state : path \in Paths, u \in Uuids}
        \cup {update_SessionLoaded.state}

RecoveryInit ==
    /\ state \in RecoveryContexts
    /\ prev = Initializing
    /\ act = NoAction
    /\ effs = <<>>
    /\ op = "init"
    /\ script = <<>>
    /\ DriverIdle
    /\ PureIdle

\* One call error_recovery(&error, &state); the state it returns becomes the
\* context of the next call.
RecoverStep ==
    /\ \E kind \in ErrorKinds :
        /\ \E r \in {error_recovery(Err(kind, FailureMessage), state)} :
            /\ state' = r.state
            /\ effs' = r.effects
        /\ lastErr' = Some(kind)
    /\ prev' = state
    /\ act' = NoAction
    /\ op' = "error_recovery"
    /\ UNCHANGED <<pc, outer, oi, inner, ii, ran, failed, script, unreported, pureVars, docs, index, inputs>>

RecoveryNext == RecoverStep

SpecRecovery == RecoveryInit /\ [][RecoveryNext]_vars

(***************************************************************************)
(* Input parsing on its own: one line, in one context, is read as the      *)
(* driver reads it (get_user_input, then UserInput::new_with_context).     *)
(***************************************************************************)

\* Sample words a user may type, without the surrounding white space.
ParseWords ==
    {<<>>,
     <<"m">>, <<"M">>, <<"m", "o", "r", "n", "i", "n", "g">>,
     <<"M", "o", "r", "n", "i", "n", "g">>, <<"M", "O", "R", "N", "I", "N", "G">>,
     <<"e">>, <<"E">>, <<"e", "v", "e", "n", "i", "n", "g">>,
     <<"E", "v", "e", "n", "i", "n", "g">>,
     <<"s">>, <<"S">>, <<"s", "t", "o", "p">>, <<"S", "t", "o", "p">>,
     <<"S", "T", "O", "P">>,
     QuitLine, <<"h", "i">>, <<"m", " ", "m">>, <<"s", "t", "o", "p", "s">>}

\* White space before and after the word, the line end included.
ParseLeads == {<<>>, <<" ">>, <<"\t", " ">>}

ParseTrails == {<<>>, <<"\n">>, <<" ", "\r", "\n">>}

InputContexts == {"ModeSelection", "InSession"}

ParseInit ==
    /\ state = Initializing
    /\ prev = Initializing
    /\ act = NoAction
    /\ effs = <<>>
    /\ op = "init"
    /\ script = <<>>
    /\ DriverIdle
    /\ \E w \in ParseWords, l \in ParseLeads, t \in ParseTrails, c \in InputContexts :
        arg = [word |-> w, line |-> l \o w \o t, context |-> c]
    /\ ret = None

\* get_user_input trims the line, new_with_context parses it.
ParseStep ==
    /\ op = "init"
    /\ ret' = Some(new_with_context(Trim(arg.line), arg.context))
    /\ op' = "parse"
    /\ UNCHANGED <<state, prev, act, effs, script, driverVars, arg>>

ParseNext == ParseStep

SpecParse == ParseInit /\ [][ParseNext]_vars

(***************************************************************************)
(* Mood extraction on its own: extract_mood_from_session applied to one    *)
(* session.  An entry's content is a sequence of words.                    *)
(***************************************************************************)

get_user_responses(s) == SelectSeq(s.transcript, LAMBDA e : e.speaker = "User")

PositiveWords == {"happy", "great", "wonderful"}

ChallengingWords == {"sad", "difficult", "hard"}

NeutralWords == {"okay", "fine", "neutral"}

ContainsAny(text, words) == \E w \in words : Contains(text, w)

\* The loop of extract_mood_from_session over the entries still to scan:
\* within one entry the families are tried in the order of the if chain.
RECURSIVE mood_scan(_)
mood_scan(entries) ==
    IF entries = <<>> THEN None
    ELSE LET content == ToLower(Head(entries).content)
         IN  IF ContainsAny(content, PositiveWords) THEN Some("positive")
             ELSE IF ContainsAny(content, ChallengingWords) THEN Some("challenging")
             ELSE IF ContainsAny(content, NeutralWords) THEN Some("neutral")
             ELSE mood_scan(Tail(entries))

extract_mood_from_session(session) == mood_scan(get_user_responses(session))

\* Sample contents: both orders of a sad and a happy word, a neutral word,
\* no keyword.
MoodContents ==
    {<<"i", "feel", "sad", "but", "also", "great">>,
     <<"i", "feel", "great", "but", "also", "sad">>,
     <<"fine">>,
     <<"hello">>}

MoodEntries ==
    {[timestamp |-> 1, speaker |-> sp, content |-> c] :
        sp \in Speakers, c \in MoodContents}

MoodSessions ==
    {[new("Evening") EXCEPT !.transcript = t] :
        t \in UNION {[1..n -> MoodEntries] : n \in 0..MaxTranscript}}

MoodInit ==
    /\ state = Initializing
    /\ prev = Initializing
    /\ act = NoAction
    /\ effs = <<>>
    /\ op = "init"
    /\ script = <<>>
    /\ DriverIdle
    /\ arg \in MoodSessions
    /\ ret = None

MoodStep ==
    /\ op = "init"
    /\ ret' = extract_mood_from_session(arg)
    /\ op' = "mood"
    /\ UNCHANGED <<state, prev, act, effs, script, driverVars, arg>>

MoodNext == MoodStep

SpecMood == MoodInit /\ [][MoodNext]_vars

(***************************************************************************)
(* Properties of the reducer (checked under Spec)                          *)
(***************************************************************************)

IsSession(s) ==
    /\ DOMAIN s = {"mode", "transcript", "metadata"}
    /\ s.mode \in Modes
    /\ \A i \in 1..Len(s.transcript) :
        /\ s.transcript[i].speaker \in Speakers
        /\ s.transcript[i].timestamp \in Times
    /\ DOMAIN s.metadata = {"session_doc_id", "final_entry_id", "completed_at"}

IsState(s) ==
    /\ s.tag \in StateTags
    /\ s.tag \in {"InSession", "Analyzing", "AnalysisReady"} => IsSession(s.session)
    /\ s.tag = "Done" => s.result.session_completed \in BOOLEAN
    /\ s.tag = "Error" => s.error.kind \in ErrorKinds

IsEffectList(es) == \A i \in 1..Len(es) : es[i].kind \in EffectKinds

\* Whether needle occurs in hay as a run of consecutive pieces.
Embeds(hay, needle) ==
    \E i \in 1..(Len(hay) + 1) :
        /\ i + Len(needle) - 1 <= Len(hay)
        /\ SubSeq(hay, i, i + Len(needle) - 1) = needle

\* The rows of the specification's transition table.
InTable(s, action) ==
    \/ s.tag = "Initializing" /\ action.type \in {"Start", "Resume"}
    \/ s.tag = "PromptingForNew" /\ action.type = "SelectMode"
    \/ s.tag = "InSession"
         /\ action.type \in {"UserResponse", "CoachResponse", "NextQuestion", "Stop"}
    \/ s.tag = "Analyzing" /\ action.type = "AnalysisComplete"
    \/ s.tag = "AnalysisReady" /\ action.type = "FinalEntryCreated"

\* C1: update is total: whatever the state and the action, the call returns
\* a well-formed State and a list of effects; no pair panics or is dropped.
UpdateTotal == op = "update" => IsState(state) /\ IsEffectList(effs)

\* C1 witness: a pair outside every explicit arm (a terminal state, a
\* command the reducer has no arm for) has been answered.
UpdateTotalWitness ==
    op = "update" /\ prev.tag = "Done" /\ act.type = "Quit" /\ IsState(state)

\* C2 as stated: from Done(w) or Error(e), every action gives a state of
\* variant Error and an empty effect list.
TerminalStatesAbsorbing ==
    op = "update" /\ is_terminal(prev) => state.tag = "Error" /\ effs = <<>>

\* C3 as stated: a (state, action) pair that is no row of the transition
\* table gives Error(description), the description embedding the offending
\* state and the offending action.
UnhandledPairGivesError ==
    op = "update" /\ ~InTable(prev, act) =>
        /\ state.tag = "Error"
        /\ Embeds(state.error.msg, DebugAction(act))
        /\ Embeds(state.error.msg, DebugState(prev))

ExpectedGreeting(mode) ==
    IF mode = "Morning"
    THEN <<"Starting ", "morning", " journal session">>
    ELSE <<"Starting ", "evening", " journal session">>

\* C9: SelectMode(mode) from PromptingForNew gives InSession(s), s of the
\* selected mode with a transcript of exactly one entry, a System entry
\* "Starting <mode> journal session", and exactly one effect, SaveSession.
SelectModeStartsSession ==
    op = "update" /\ prev.tag = "PromptingForNew" /\ act.type = "SelectMode" =>
        /\ state.tag = "InSession"
        /\ state.session.mode = act.mode
        /\ Len(state.session.transcript) = 1
        /\ state.session.transcript[1].speaker = "System"
        /\ state.session.transcript[1].content = ExpectedGreeting(act.mode)
        /\ Len(effs) = 1
        /\ effs[1].kind = "SaveSession"

\* C9 witness: an evening session has been started from the mode prompt.
SelectModeStartsSessionWitness ==
    /\ op = "update"
    /\ prev.tag = "PromptingForNew"
    /\ act = SelectMode("Evening")
    /\ state.tag = "InSession"

\* C10: UserResponse(text) in InSession(s) gives InSession(s'), s'.transcript
\* being s.transcript with exactly one entry appended, a User entry whose
\* content is text, and the effects [SaveSession, RequestCoachResponse(.., text)].
UserResponseAppends ==
    op = "update" /\ prev.tag = "InSession" /\ act.type = "UserResponse" =>
        /\ state.tag = "InSession"
        /\ LET old == prev.session.transcript
               cur == state.session.transcript
           IN  /\ Len(cur) = Len(old) + 1
               /\ SubSeq(cur, 1, Len(old)) = old
               /\ cur[Len(cur)].speaker = "User"
               /\ cur[Len(cur)].content = act.text
        /\ Len(effs) = 2
        /\ effs[1].kind = "SaveSession"
        /\ effs[2].kind = "RequestCoachResponse"
        /\ effs[2].user_response = act.text

\* C10 witness: a user answer has been appended to a started session.
UserResponseAppendsWitness ==
    /\ op = "update"
    /\ prev.tag = "InSession"
    /\ Len(prev.session.transcript) = 1
    /\ act.type = "UserResponse"
    /\ Len(state.session.transcript) = 2

\* C11: Stop in InSession(s) gives Analyzing(s'), s' being s with
\* metadata.completed_at set and nothing else changed, and the effects are
\* exactly [SaveSession(s'), GenerateAnalysis(s')], in that order.
StopMarksCompleted ==
    op = "update" /\ prev.tag = "InSession" /\ act.type = "Stop" =>
        /\ state.tag = "Analyzing"
        /\ state.session.metadata.completed_at # None
        /\ state.session =
            [prev.session EXCEPT
                !.metadata.completed_at = state.session.metadata.completed_at]
        /\ Len(effs) = 2
        /\ effs[1] = SaveSession(state.session)
        /\ effs[2] = GenerateAnalysis(state.session)

\* C11 witness: a session holding an answer has been stopped.
StopMarksCompletedWitness ==
    /\ op = "update"
    /\ prev.tag = "InSession"
    /\ Len(prev.session.transcript) = 2
    /\ prev.session.metadata.completed_at = None
    /\ act.type = "Stop"
    /\ state.tag = "Analyzing"

\* The identifiers a session carries.
SessionIds(s) == s.metadata.session_doc_id \cup s.metadata.final_entry_id

FinalEntryCreatedCompletes ==
    op = "update" /\ prev.tag = "AnalysisReady" /\ act.type = "FinalEntryCreated" =>
        /\ state.tag = "Done"
        /\ state.result.entry_path = act.entry_path
        /\ state.result.session_completed = TRUE
        /\ effs = <<ClearIndex>>

\* C13 witness: the final entry of an analysed session has been reported.
FinalEntryCreatedCompletesWitness ==
    /\ op = "update"
    /\ prev.tag = "AnalysisReady"
    /\ act.type = "FinalEntryCreated"
    /\ state.tag = "Done"
    /\ state.result.entry_id = "u2"

\* C14: Start in Initializing gives PromptingForNew and no effect.
StartPrompts ==
    op = "update" /\ prev.tag = "Initializing" /\ act.type = "Start" =>
        state = PromptingForNew /\ effs = <<>>

\* C14 witness: the first action of a run was Start.
StartPromptsWitness ==
    op = "update" /\ prev = Initializing /\ act = Start /\ state = PromptingForNew

\* C15: Resume(id) in Initializing stays in Initializing and emits exactly
\* one effect, LoadSession(id), with the identifier of the action.
ResumeLoadsSession ==
    op = "update" /\ prev.tag = "Initializing" /\ act.type = "Resume" =>
        state = Initializing /\ effs = <<LoadSession(act.id)>>

\* C15 witness: the second sample identifier has been resumed.
ResumeLoadsSessionWitness ==
    /\ op = "update"
    /\ prev = Initializing
    /\ act = Resume("u2")
    /\ Len(effs) = 1
    /\ effs[1].kind = "LoadSession"

\* C16: CoachResponse(text) in InSession(s) gives InSession(s'),
\* s'.transcript being s.transcript with exactly one entry appended, a Coach
\* entry whose content is text, and exactly one effect, SaveSession.
CoachResponseAppends ==
    op = "update" /\ prev.tag = "InSession" /\ act.type = "CoachResponse" =>
        /\ state.tag = "InSession"
        /\ LET old == prev.session.transcript
               cur == state.session.transcript
           IN  /\ Len(cur) = Len(old) + 1
               /\ SubSeq(cur, 1, Len(old)) = old
               /\ cur[Len(cur)].speaker = "Coach"
               /\ cur[Len(cur)].content = act.text
        /\ state.session.mode = prev.session.mode
        /\ state.session.metadata = prev.session.metadata
        /\ Len(effs) = 1
        /\ effs[1].kind = "SaveSession"

\* C16 witness: a coach reply has been appended to a started session.
CoachResponseAppendsWitness ==
    /\ op = "update"
    /\ prev.tag = "InSession"
    /\ Len(prev.session.transcript) = 1
    /\ act.type = "CoachResponse"
    /\ Len(state.session.transcript) = 2
    /\ state.session.transcript[2].speaker = "Coach"

\* C17: NextQuestion in InSession(s) gives InSession(s), the session (mode,
\* transcript, metadata) unchanged, and no effect.
NextQuestionIsNoOp ==
    op = "update" /\ prev.tag = "InSession" /\ act.type = "NextQuestion" =>
        /\ state.tag = "InSession"
        /\ state.session.mode = prev.session.mode
        /\ state.session.transcript = prev.session.transcript
        /\ state.session.metadata = prev.session.metadata
        /\ effs = <<>>

\* C17 witness: an empty line was entered in a session that holds an answer.
NextQuestionIsNoOpWitness ==
    /\ op = "update"
    /\ prev.tag = "InSession"
    /\ Len(prev.session.transcript) = 2
    /\ act = NextQuestion
    /\ state = prev

(***************************************************************************)
(* Properties of the scenario (checked under SpecScenario)                 *)
(***************************************************************************)

\* The actions of the scenario applied so far.
Applied == ScenarioLen - Len(script)

\* C8: from Initializing, Start, SelectMode(Morning), UserResponse(t1),
\* CoachResponse(t2), Stop, AnalysisComplete(a), FinalEntryCreated{path, a}
\* visit PromptingForNew, InSession with 1 entry, InSession with the 2 effects
\* [SaveSession, RequestCoachResponse], InSession with 3 entries, Analyzing,
\* AnalysisReady, and end in Done with session_completed = TRUE.
ScenarioVisits ==
    op = "scenario" =>
        /\ Applied = 1 => state = PromptingForNew
        /\ Applied = 2 => state.tag = "InSession" /\ Len(state.session.transcript) = 1
        /\ Applied = 3 =>
            /\ state.tag = "InSession"
            /\ Len(effs) = 2
            /\ effs[1].kind = "SaveSession"
            /\ effs[2].kind = "RequestCoachResponse"
        /\ Applied = 4 => state.tag = "InSession" /\ Len(state.session.transcript) = 3
        /\ Applied = 5 => state.tag = "Analyzing"
        /\ Applied = 6 => state.tag = "AnalysisReady"
        /\ Applied = 7 =>
            /\ state.tag = "Done"
            /\ state.result.session_completed = TRUE
            /\ state.result.entry_path = act.entry_path

\* C8 witness: the whole scenario has been applied and the run is in Done.
ScenarioVisitsWitness ==
    op = "scenario" /\ script = <<>> /\ state.tag = "Done" /\ act.type = "FinalEntryCreated"

(***************************************************************************)
(* Properties of the driver (checked under SpecDriver)                     *)
(***************************************************************************)

SessionDocs == {k \in 1..Len(docs) : docs[k].doc_type = "journal.session"}

CarriesSession(s) == s.tag \in {"InSession", "Analyzing", "AnalysisReady"}

RunEnded == pc \in {"exit_ok", "exit_error", "stuck", "input_failed"}

\* In a driver run Analyzing is entered only by Stop from InSession.
StopEntered == state.tag \in {"Analyzing", "AnalysisReady", "Done"}

OuterRan == SelectSeq(ran, LAMBDA x : x.level = "outer")

\* C5 as stated: at most one session document exists per session: only the
\* first successful save creates a document, the identifier it returns is
\* captured into the session's metadata.session_doc_id, and every later save
\* targets that identifier in merge mode.  Stated of the runs in which no
\* effect has failed, so every save counted is a successful one.
OneSessionDocument ==
    ~failed =>
        /\ Cardinality(SessionDocs) <= 1
        /\ \A k \in SessionDocs : docs[k].patch = "Create"
        /\ \A k \in SessionDocs :
            CarriesSession(state) /\ EffectsDone =>
                state.session.metadata.session_doc_id = Some(docs[k].uuid)

\* C6 as stated: process_action runs the effects in the order update returned
\* them, and an action yielded by an effect, at whatever depth, is fed to
\* update and its effects run before the next outer effect.  Stated of the
\* runs in which no effect has failed.
FollowUpsFullyProcessed ==
    ~failed =>
        /\ \A k \in 1..Len(OuterRan) : OuterRan[k].effect = outer[k]
        /\ \A k \in 1..Len(ran) : ran[k].yielded # None => ran[k].fed

\* C7 as stated: after Stop is entered in InSession and every effect
\* succeeds, the run ends in Done, not in "stuck in non-interactive state".
StopReachesDone ==
    RunEnded /\ StopEntered /\ ~failed => state.tag = "Done" /\ pc = "exit_ok"

\* Whether the k-th effect run by the current process_action is a
\* GenerateAnalysis that failed.
AnalysisFailed(k) ==
    /\ ran[k].level = "outer"
    /\ ran[k].effect.kind = "GenerateAnalysis"
    /\ ~ran[k].ok

\* C18 as stated: when GenerateAnalysis fails (every failure of that effect
\* is a failure to invoke the model) while the state is Analyzing, the state
\* advances to AnalysisReady with a fallback analysis marked AI-unavailable,
\* and once process_action is through, a CreateFinalEntry carrying that
\* fallback text has been run.
AnalysisFailureFallsBack ==
    \A k \in 1..Len(ran) :
        AnalysisFailed(k) =>
            /\ state.tag = "AnalysisReady"
            /\ Contains(state.analysis, "**AI Analysis Unavailable**\n\n")
            /\ EffectsDone =>
                \E j \in (k + 1)..Len(ran) :
                    /\ ran[j].effect.kind = "CreateFinalEntry"
                    /\ ran[j].effect.analysis = state.analysis

(***************************************************************************)
(* Properties of error_recovery (checked under SpecRecovery)               *)
(***************************************************************************)

FallbackKinds == {"AiAnalysis", "ClaudeExecution"}

RestartKinds == {"SessionNotFound", "InvalidSessionState"}

FatalKinds == {"VaultOperation", "Aethel", "Io", "Json", "Config", "System"}

\* The error of the last call of error_recovery.
Raised == {Err(k, FailureMessage) : k \in lastErr}

\* C19 as stated: a fallback kind raised with context Analyzing(s) proceeds
\* exactly as update(Analyzing(s), AnalysisComplete(fallback)) would: the
\* next state is AnalysisReady{s, fallback} and the effect is a
\* CreateFinalEntry carrying the fallback analysis.
FallbackProceedsAsAnalysisComplete ==
    op = "error_recovery" /\ prev.tag = "Analyzing" =>
        \A e \in Raised :
            e.kind \in FallbackKinds =>
                \E uuid \in Uuids :
                    Result(state, effs) =
                        update(prev, AnalysisComplete(fallback_analysis(e)), 1, uuid)

\* C20 as stated: the state error_recovery returns depends on the error kind
\* alone, whatever the context: the restart kinds give PromptingForNew, the
\* fatal kinds give Error(reason), and the fallback kinds, the only kinds
\* whose result depends on the context, give Error outside Analyzing.
RecoveryByKindAlone ==
    op = "error_recovery" =>
        \A e \in Raised :
            /\ e.kind \in RestartKinds => state = PromptingForNew
            /\ e.kind \in FatalKinds => state = ErrorState(e)
            /\ e.kind \in FallbackKinds /\ prev.tag # "Analyzing" => state.tag = "Error"
            /\ e.kind \notin FallbackKinds =>
                \A c \in RecoveryContexts : error_recovery(e, c).state = state

\* C20 amended: as stated, with a second exception: UserInput gives back the
\* context state it was raised in.
RecoveryByKind ==
    op = "error_recovery" =>
        \A e \in Raised :
            /\ e.kind \in RestartKinds => state = PromptingForNew
            /\ e.kind \in FatalKinds => state = ErrorState(e)
            /\ e.kind \in FallbackKinds /\ prev.tag # "Analyzing" => state.tag = "Error"
            /\ e.kind = "UserInput" => state = prev
            /\ e.kind \notin FallbackKinds \cup {"UserInput"} =>
                \A c \in RecoveryContexts : error_recovery(e, c).state = state

\* C20 witness: a system error raised during a session has ended in Error.
RecoveryByKindWitness ==
    /\ op = "error_recovery"
    /\ prev.tag = "InSession"
    /\ lastErr = Some("System")
    /\ state = ErrorState(Err("System", FailureMessage))

(***************************************************************************)
(* Properties of the driver's failure handling (checked under SpecDriver)  *)
(***************************************************************************)

\* The kinds error.rs gives storage-layer and malformed-data failures.
StorageKinds == {"VaultOperation", "Aethel", "Io", "Json"}

StorageEffects == {"SaveSession", "LoadSession", "CreateFinalEntry", "ClearIndex"}

\* Whether the effect run last was a storage effect that failed with a
\* storage-layer or malformed-data error.
StorageFailed ==
    /\ ran # <<>>
    /\ ran[Len(ran)].effect.kind \in StorageEffects
    /\ ~ran[Len(ran)].ok
    /\ lastErr \cap StorageKinds # {}

\* C21 as stated: a storage-layer or malformed-data failure of SaveSession,
\* LoadSession, CreateFinalEntry or ClearIndex is fatal: once it is
\* reported, the driver's state is Error and the run is over, no effect of
\* the current process_action being left to run.
StorageFailureIsFatal ==
    StorageFailed => state.tag = "Error" /\ EffectsDone

\* C22 as stated: when the run was seeded with Resume(id) and LoadSession(id)
\* fails with session-not-found, the state becomes PromptingForNew, so that
\* the user is asked for a mode and the run goes on.
SessionNotFoundRestarts ==
    /\ ran # <<>>
    /\ ran[Len(ran)].effect.kind = "LoadSession"
    /\ lastErr = Some("SessionNotFound")
    => state = PromptingForNew

\* C23 as stated: when the run was seeded with Resume(id) and LoadSession(id)
\* succeeds, the follow-up UserResponse("session_loaded") takes the state
\* from Initializing to InSession.
SessionLoadedContinues ==
    /\ op = "follow_up"
    /\ prev = Initializing
    /\ act = UserResponse(<<"session_loaded">>)
    => state.tag = "InSession"

\* Whether the action process_action was last given is what the line
\* "quit" parses to in the state it was entered in.
QuitEntered ==
    /\ op = "process_action"
    /\ inputs > 0
    /\ act = new_with_context(QuitLine, InputContext(prev))

\* C24 as stated: the active-session pointer is deleted when a run ends by
\* completion or by the user's quit: once the state is Done, and once a quit
\* the user entered has been processed, the pointer record is absent (a
\* ClearIndex effect has removed the one the saves wrote).
PointerDeletedAtEnd ==
    (state.tag = "Done" \/ QuitEntered) /\ EffectsDone /\ ~failed => index = None

(***************************************************************************)
(* Properties of the input parsing (checked under SpecParse)               *)
(***************************************************************************)

MorningWords ==
    {<<"m">>, <<"M">>, <<"m", "o", "r", "n", "i", "n", "g">>,
     <<"M", "o", "r", "n", "i", "n", "g">>, <<"M", "O", "R", "N", "I", "N", "G">>}

EveningWords ==
    {<<"e">>, <<"E">>, <<"e", "v", "e", "n", "i", "n", "g">>,
     <<"E", "v", "e", "n", "i", "n", "g">>}

StopWords ==
    {<<"s">>, <<"S">>, <<"s", "t", "o", "p">>, <<"S", "t", "o", "p">>,
     <<"S", "T", "O", "P">>}

UpdateOps == {"process_action", "follow_up", "fallback"}

\* C25 as stated: no error is swallowed: every error the run has met printed
\* a message where it was handled (the failure to read the active-session
\* pointer at startup included), and an invalid transition, which update
\* hands to error_recovery, comes back with a ShowError effect.
EveryErrorReported ==
    /\ unreported = 0
    /\ op \in UpdateOps /\ ~Handled(prev, act) =>
        \E k \in 1..Len(effs) : effs[k].kind = "ShowError"

(***************************************************************************)
(* Properties of the mood extraction (checked under SpecMood)              *)
(***************************************************************************)

RECURSIVE Flatten(_)
Flatten(entries) ==
    IF entries = <<>> THEN <<>> ELSE Head(entries).content \o Flatten(Tail(entries))

\* The words of the User entries, in transcript order.
UserWords(s) == Flatten(SelectSeq(s.transcript, LAMBDA e : e.speaker = "User"))

MoodFamily(w) ==
    CASE w \in {"happy", "great", "wonderful"} -> "positive"
      [] w \in {"sad", "difficult", "hard"} -> "challenging"
      [] w \in {"okay", "fine", "neutral"} -> "neutral"
      [] OTHER -> "none"

\* The family of the mood keyword that comes first in the text, if any.
EarliestKeywordMood(text) ==
    LET at == {k \in 1..Len(text) : MoodFamily(text[k]) # "none"}
    IN  IF at = {} THEN None
        ELSE Some(MoodFamily(text[CHOOSE k \in at : \A j \in at : k <= j]))

\* C28 as stated: the mood is the family of the keyword that occurs earliest
\* in the User entries taken in transcript order (a sad word before a happy
\* one gives "challenging", the reverse "positive"); Coach and System
\* entries do not count, and no keyword leaves the mood unset.
MoodIsEarliestKeyword ==
    op = "mood" => ret = EarliestKeywordMood(UserWords(arg))

\* C29 as stated: RequestCoachResponse never yields CoachResponse with empty
\* text (empty trimmed output is a failure of the effect), so the transcript
\* never holds a Coach entry with empty content.
NoEmptyCoachEntry ==
    /\ op = "follow_up" /\ act.type = "CoachResponse" => act.text # <<>>
    /\ CarriesSession(state) =>
        \A k \in 1..Len(state.session.transcript) :
            state.session.transcript[k].speaker = "Coach" =>
                state.session.transcript[k].content # <<>>

\* C30: Done and Error are terminal in a driver run: from a state in which
\* the driver's state is Done or Error, no step applies update (the last
\* call of update stays the last), reads a line or changes the state.
TerminalIsFinal ==
    [][state.tag \in {"Done", "Error"} =>
            /\ state' = state
            /\ <<prev, act, effs, op>>' = <<prev, act, effs, op>>
            /\ inputs' = inputs
            /\ <<outer, inner>>' = <<outer, inner>>]_vars

\* C30 witness: a run has ended in Error and has left the loop.
TerminalIsFinalWitness ==
    state.tag = "Error" /\ pc = "exit_error" /\ EffectsDone

(***************************************************************************)
(* Invariants of the session data (checked under Spec)                     *)
(***************************************************************************)

IsPrefix(a, b) == Len(a) <= Len(b) /\ SubSeq(b, 1, Len(a)) = a

\* C31: the transcript is append-only: when update takes a state carrying a
\* session to a state carrying a session, the old transcript is a prefix of
\* the new one, which is longer by at most one entry.
TranscriptAppendOnly ==
    op = "update" /\ CarriesSession(prev) /\ CarriesSession(state) =>
        /\ IsPrefix(prev.session.transcript, state.session.transcript)
        /\ Len(state.session.transcript) <= Len(prev.session.transcript) + 1

\* C31 witness: an entry has been appended to a transcript that had one.
TranscriptAppendOnlyWitness ==
    /\ op = "update"
    /\ prev.tag = "InSession"
    /\ state.tag = "InSession"
    /\ Len(prev.session.transcript) = 1
    /\ Len(state.session.transcript) = 2
    /\ state.session.transcript[1] = prev.session.transcript[1]

\* C32 as stated: update enters Done from AnalysisReady on FinalEntryCreated
\* and from no other (state, action) pair.
DoneOnlyFromAnalysisReady ==
    op = "update" /\ state.tag = "Done" =>
        prev.tag = "AnalysisReady" /\ act.type = "FinalEntryCreated"

EffectsWithSession ==
    {"SaveSession", "RequestCoachResponse", "GenerateAnalysis", "CreateFinalEntry"}

\* C37: every effect that carries a session carries the session of the state
\* the same call of update returned.
EffectsCarryNewSession ==
    op = "update" =>
        \A k \in 1..Len(effs) :
            effs[k].kind \in EffectsWithSession =>
                CarriesSession(state) /\ effs[k].session = state.session

\* C37 witness: an answer was appended and both effects carry it.
EffectsCarryNewSessionWitness ==
    /\ op = "update"
    /\ act.type = "UserResponse"
    /\ state.tag = "InSession"
    /\ state.session # prev.session
    /\ Len(effs) = 2
    /\ effs[1].session = state.session
    /\ effs[2].session = state.session

\* C38: completed_at tracks the phase: a session carried by Analyzing or
\* AnalysisReady has it set, a session carried by InSession has it unset.
CompletedAtTracksPhase ==
    /\ state.tag \in {"Analyzing", "AnalysisReady"} =>
        state.session.metadata.completed_at # None
    /\ state.tag = "InSession" => state.session.metadata.completed_at = None

\* C38 witness: the analysis of a stopped session is ready.
CompletedAtTracksPhaseWitness ==
    /\ op = "update"
    /\ state.tag = "AnalysisReady"
    /\ state.session.metadata.completed_at # None
    /\ prev.tag = "Analyzing"

(***************************************************************************)
(* The driver loop and the session it carries (checked under SpecDriver)   *)
(***************************************************************************)

\* C33: a line of input is read only in PromptingForNew or InSession, and when
\* an action and all its effects are processed in a state that is neither
\* terminal nor interactive, the next step of the loop stops the run with the
\* fatal error, reading nothing.
InputOnlyWhenInteractive ==
    [][/\ inputs' # inputs => state.tag \in {"PromptingForNew", "InSession"}
       /\ (pc = "effects" /\ EffectsDone
             /\ state.tag \in {"Initializing", "Analyzing", "AnalysisReady"}) =>
            pc' = "stuck" /\ state' = state /\ inputs' = inputs]_vars

\* C33 witness: the run stopped in AnalysisReady with lines left to read.
InputOnlyWhenInteractiveWitness ==
    /\ pc = "stuck"
    /\ state.tag = "AnalysisReady"
    /\ inputs < MaxInputs

NestedRan == SelectSeq(ran, LAMBDA x : x.level = "nested")

\* C34: no effect is retried: the effects run while one action is processed
\* are, in order and once each, the first oi effects update returned for it
\* and the first ii effects update returned for the follow-up action, and an
\* effect that failed is not run again.
NoEffectRetried ==
    /\ Len(OuterRan) = oi
    /\ oi <= Len(outer)
    /\ \A k \in 1..oi : OuterRan[k].effect = outer[k]
    /\ Len(NestedRan) = ii
    /\ ii <= Len(inner)
    /\ \A k \in 1..ii : NestedRan[k].effect = inner[k]
    /\ \A j \in 1..Len(ran), k \in 1..Len(ran) :
        j < k /\ ~ran[j].ok => ran[k].effect # ran[j].effect

\* C34 witness: a nested effect failed and the action's effects are done.
NoEffectRetriedWitness ==
    /\ pc = "effects"
    /\ EffectsDone
    /\ ran # <<>>
    /\ ran[Len(ran)].level = "nested"
    /\ ~ran[Len(ran)].ok
    /\ \E k \in 1..Len(ran) : ran[k].level = "outer" /\ ~ran[k].ok

\* C35: the state changes only by update applied to an action: every step
\* that changes the state records the action and the state it was applied to,
\* and the new state is the one update returns for them.
StateChangesOnlyByUpdate ==
    [][state' # state =>
        /\ op' \in UpdateOps
        /\ prev' = state
        /\ \E now \in 1..(MaxInputs + 1), uuid \in Uuids :
            state' = update(state, act', now, uuid).state]_vars

\* C35 witness: the reply an effect produced reached the session through the
\* CoachResponse action.
StateChangesOnlyByUpdateWitness ==
    /\ op = "follow_up"
    /\ act.type = "CoachResponse"
    /\ state.tag = "InSession"
    /\ state.session # prev.session
    /\ docs # <<>>

DocumentIdsNeverSet ==
    /\ CarriesSession(state) =>
        /\ state.session.metadata.session_doc_id = None
        /\ state.session.metadata.final_entry_id = None
    /\ \A k \in 1..Len(ran) :
        ran[k].effect.kind = "SaveSession" =>
            ran[k].effect.session.metadata.session_doc_id = None

\* C39 witness: a second save of the session has succeeded.
DocumentIdsNeverSetWitness ==
    /\ CarriesSession(state)
    /\ Len(docs) >= 2
    /\ ran # <<>>
    /\ ran[Len(ran)].effect.kind = "SaveSession"
    /\ ran[Len(ran)].ok
    /\ ran[Len(ran)].effect.session.metadata.session_doc_id = None

CoachRequestFailed ==
    /\ ran # <<>>
    /\ ran[Len(ran)].effect.kind = "RequestCoachResponse"
    /\ ~ran[Len(ran)].ok

\* C40: when RequestCoachResponse fails, the state stays InSession with the
\* session the effect carried, whose last entry is the user's answer, and the
\* driver is at the point of the loop where it reads the next line.
FailedCoachRequestKeepsSession ==
    CoachRequestFailed =>
        LET e == ran[Len(ran)].effect
            t == state.session.transcript
        IN  /\ state.tag = "InSession"
            /\ state.session = e.session
            /\ t # <<>>
            /\ t[Len(t)].speaker = "User"
            /\ t[Len(t)].content = e.user_response
            /\ EffectsDone
            /\ pc \in {"effects", "input_failed"}

\* C40 witness: the coach request failed with an AI error.
FailedCoachRequestKeepsSessionWitness ==
    /\ CoachRequestFailed
    /\ lastErr = {"AiAnalysis"}
    /\ pc = "effects"
    /\ state.tag = "InSession"

====
